---- MODULE Spec2Model ----
(***************************************************************************)
(* Render-graph assembly of bevy_core_pipeline: inclusion settings, the    *)
(* sequencers that filter a catalogue of pipeline nodes into a             *)
(* PipelineSequence, and the RenderGraphApp calls that place a sequence    *)
(* into a sub-graph of the render graph.                                   *)
(*                                                                         *)
(* Option<T> is modelled as a sequence of length at most one: None is <<>> *)
(* and Some(x) is <<x>>, so that `a.into_iter().chain(b)` is a \o b.       *)
(***************************************************************************)
EXTENDS Integers, Sequences, FiniteSets, TLC

VARIABLES
    settings,      \* the Core2dSettings value: HashMap<&'static str, bool>
    psettings,     \* the Core2dPipelineSettings value
    sequence,      \* Option<PipelineSequence>: the sequence built last
    built_by,      \* the name of the function that built it
    render_graph,  \* the RenderGraph resource: sub-graph name -> sub-graph
    warn_log,      \* number of warn! records emitted so far
    calls,         \* number of RenderGraphApp / PipelineSequence calls made
    last           \* the call made last: its name, arguments and result

vars == <<settings, psettings, sequence, built_by, render_graph, warn_log, calls, last>>

\* ------------------------------------------------------------------ bounds

\* Longest node vector handed to a sequencer or to PipelineSequence::new.
MaxLen == 2

\* Most calls on the render app (graph mutations) in one behaviour.
MaxCalls == 2

\* ------------------------------------------------------------------ Option

None == <<>>

Some(x) == <<x>>

\* ------------------------------------------------------------------ pipeline nodes

\* The identifiers handed to pipeline_node! in core_2d.
StageIds ==
    {"MainPass", "Upscaling", "EndMainPassPostProcessing",
     "Bloom", "Tonemapping", "Fxaa", "MsaaWriteback"}

\* The default label: stringify! of the unexpanded paste! invocation.
generate_default_pipeline_node_label(pipeline_node) ==
    "paste! { [< " \o pipeline_node \o " : snake : lower >] }"

\* label() giving the struct's name, as the macro's documentation describes.
label_struct_name(pipeline_node) == pipeline_node

\* PipelineNode::label of a node declared by pipeline_node!(id, ty).
label(pipeline_node) == generate_default_pipeline_node_label(pipeline_node)

\* The exported constants [<$pipeline_node:snake:upper>].
MAIN_PASS == generate_default_pipeline_node_label("MainPass")

UPSCALING == generate_default_pipeline_node_label("Upscaling")

END_MAIN_PASS_POST_PROCESSING ==
    generate_default_pipeline_node_label("EndMainPassPostProcessing")

BLOOM == generate_default_pipeline_node_label("Bloom")

TONEMAPPING == generate_default_pipeline_node_label("Tonemapping")

FXAA == generate_default_pipeline_node_label("Fxaa")

MSAA_WRITEBACK == generate_default_pipeline_node_label("MsaaWriteback")

\* The node type bound to each declaration: what its NodeFactory creates.
create_node(pipeline_node) ==
    CASE pipeline_node = "MainPass" -> "MainPass2dNode"
      [] pipeline_node = "Upscaling" -> "ViewNodeRunner<UpscalingNode>"
      [] pipeline_node = "EndMainPassPostProcessing" -> "EmptyNode"
      [] pipeline_node = "Bloom" -> "ViewNodeRunner<BloomNode>"
      [] pipeline_node = "Tonemapping" -> "ViewNodeRunner<TonemappingNode>"
      [] pipeline_node = "Fxaa" -> "FxaaNode"
      [] pipeline_node = "MsaaWriteback" -> "MsaaWritebackNode"

CORE_2D == "core_2d"

\* ------------------------------------------------------------------ Core2dSettings

\* Labels used as keys when the settings are written or read.
SettingKeys == {TONEMAPPING, BLOOM, MSAA_WRITEBACK, FXAA, MAIN_PASS}

\* Every HashMap over the keys.
AllSettings == UNION {[D -> BOOLEAN] : D \in SUBSET SettingKeys}

\* impl Default for Core2dSettings.
Core2dSettings_default == [l \in {TONEMAPPING, BLOOM, MSAA_WRITEBACK} |-> TRUE]

\* get_bool with the default inverted: unwrap_or(false).
get_bool_default_false(map, l) == IF l \in DOMAIN map THEN map[l] ELSE FALSE

\* Core2dSettings::get_bool: self.0.get(label).copied().unwrap_or(true).
get_bool(map, l) == IF l \in DOMAIN map THEN map[l] ELSE TRUE

\* HashMap::insert: the map after self.0.insert(label, value).
set_bool_map(map, l, value) ==
    [k \in DOMAIN map \cup {l} |-> IF k = l THEN value ELSE map[k]]

\* set_bool returning the old value or the default: unwrap_or(true) on the result.
set_bool_or_default(map, l, value) ==
    Some(IF l \in DOMAIN map THEN map[l] ELSE TRUE)

\* Core2dSettings::set_bool: the Option<bool> that HashMap::insert returns.
set_bool(map, l, value) == IF l \in DOMAIN map THEN Some(map[l]) ELSE None

\* get_map_mut().remove(label): the map without the key.
map_remove(map, l) == [k \in DOMAIN map \ {l} |-> map[k]]

\* test_sequence_inclusion! with an opt-in default: a node the map does not
\* mention is left out.
RECURSIVE test_sequence_inclusion_opt_in(_, _, _)
test_sequence_inclusion_opt_in(test_labels, map, node_label) ==
    IF test_labels = <<>> THEN FALSE
    ELSE IF Head(test_labels) = node_label /\ Head(test_labels) \in DOMAIN map
         THEN map[Head(test_labels)]
         ELSE test_sequence_inclusion_opt_in(Tail(test_labels), map, node_label)

\* test_sequence_inclusion!: the first test label equal to the node's label
\* that the map holds decides; otherwise the node is included.
RECURSIVE test_sequence_inclusion(_, _, _)
test_sequence_inclusion(test_labels, map, node_label) ==
    IF test_labels = <<>> THEN TRUE
    ELSE IF Head(test_labels) = node_label /\ Head(test_labels) \in DOMAIN map
         THEN map[Head(test_labels)]
         ELSE test_sequence_inclusion(Tail(test_labels), map, node_label)

\* The core inclusion test consulting the settings for every label.
test_core_sequence_inclusion_every_label(map, node) == get_bool(map, label(node))

\* test_sequence_inclusion!(core, tonemapping, bloom).
test_core_sequence_inclusion(map, node) ==
    test_sequence_inclusion(<<TONEMAPPING, BLOOM>>, map, label(node))

\* test_sequence_inclusion!(msaa_writeback, msaa_writeback).
test_msaa_writeback_sequence_inclusion(map, node) ==
    test_sequence_inclusion(<<MSAA_WRITEBACK>>, map, label(node))

\* ------------------------------------------------------------------ PipelineSequence

\* PipelineSequence::new with every label taken from the first node.
PipelineSequence_new_first_label(pipeline_label, node_sequence) ==
    [pipeline_label |-> pipeline_label,
     node_sequence |-> node_sequence,
     label_sequence |-> [i \in 1..Len(node_sequence) |-> label(node_sequence[1])]]

\* PipelineSequence::new: label_sequence is node_sequence mapped through label.
PipelineSequence_new(pipeline_label, node_sequence) ==
    [pipeline_label |-> pipeline_label,
     node_sequence |-> node_sequence,
     label_sequence |-> [i \in 1..Len(node_sequence) |-> label(node_sequence[i])]]

\* The reverse of a sequence.
Reverse(q) == [i \in 1..Len(q) |-> q[Len(q) + 1 - i]]

\* create_simple_sequencer! collecting the kept nodes in reverse order.
create_simple_sequencer_reversed(node_sequence, core2d_settings) ==
    PipelineSequence_new(
        CORE_2D,
        Reverse(SelectSeq(node_sequence,
                          LAMBDA x : test_core_sequence_inclusion(core2d_settings, x))))

\* create_simple_sequencer! with a settings type: the node vector filtered by
\* test_core_sequence_inclusion, in iteration order.
create_simple_sequencer(node_sequence, core2d_settings) ==
    PipelineSequence_new(
        CORE_2D,
        SelectSeq(node_sequence,
                  LAMBDA x : test_core_sequence_inclusion(core2d_settings, x)))

\* The node vector of create_simple_sequencer!("core 2d", core; ...).
CoreCatalogue ==
    <<"MainPass", "Bloom", "Tonemapping", "Fxaa",
      "EndMainPassPostProcessing", "Upscaling">>

create_core_sequence(core2d_settings) ==
    create_simple_sequencer(CoreCatalogue, core2d_settings)

\* create_simple_sequencer!("MSAA writeback", msaa_writeback; MsaaWriteback):
\* no settings type, so no filter.
create_msaa_writeback_sequence == PipelineSequence_new(CORE_2D, <<"MsaaWriteback">>)

\* ------------------------------------------------------------------ Core2dPipelineSettings

\* impl Default for Core2dPipelineSettings.
Core2dPipelineSettings_default ==
    [pipeline_label |-> "core_2d",
     tonemapping |-> TRUE,
     tonemapping_label |-> label("Tonemapping"),
     bloom |-> TRUE,
     bloom_label |-> label("Bloom")]

\* test_inclusion with the two flags swapped between the two labels.
test_inclusion_swapped(s, node) ==
    CASE s.tonemapping_label = label(node) -> s.bloom
      [] s.bloom_label = label(node) -> s.tonemapping
      [] OTHER -> TRUE

\* Core2dPipelineSettings::test_inclusion.
test_inclusion(s, node) ==
    CASE s.tonemapping_label = label(node) -> s.tonemapping
      [] s.bloom_label = label(node) -> s.bloom
      [] OTHER -> TRUE

\* default_sequence of create_core_pipeline_sequence.
PipelineCatalogue ==
    <<"MainPass", "Bloom", "Tonemapping", "EndMainPassPostProcessing", "Upscaling">>

create_core_pipeline_sequence(s) ==
    PipelineSequence_new(
        s.pipeline_label,
        SelectSeq(PipelineCatalogue, LAMBDA x : test_inclusion(s, x)))

\* ------------------------------------------------------------------ RenderGraph

\* RenderGraph::default(): a graph with no node and no edge. nodes maps a node
\* label to the node stored under it.
RenderGraph_default == [nodes |-> <<>>, edges |-> {}]

\* RenderGraph::add_sub_graph(name, sub_graph): the graphs that may result.
\* A new name is bound to sub_graph; for a name already bound the outcome is
\* left open, so the old sub-graph is either kept or replaced.
RenderGraph_add_sub_graph(graph, name, sub_graph) ==
    IF name \in DOMAIN graph
    THEN {graph, [graph EXCEPT ![name] = sub_graph]}
    ELSE {[n \in DOMAIN graph \cup {name} |->
              IF n = name THEN sub_graph ELSE graph[n]]}

\* RenderGraph::add_node(name, node): the node is stored under the label.
RenderGraph_add_node(graph, name, node) ==
    [graph EXCEPT !.nodes =
        [l \in DOMAIN graph.nodes \cup {name} |->
            IF l = name THEN node ELSE graph.nodes[l]]]

\* The consecutive pairs of a list of labels, in order.
ConsecutivePairs(labels) ==
    [i \in 1..(IF Len(labels) = 0 THEN 0 ELSE Len(labels) - 1) |->
        <<labels[i], labels[i + 1]>>]

\* RenderGraph::add_node_edge(output, input): one directed edge.
RenderGraph_add_node_edge(graph, output_edge, input_edge) ==
    [graph EXCEPT !.edges = @ \cup {<<output_edge, input_edge>>}]

\* RenderGraph::add_edges_between(labels): an edge between each consecutive pair.
RenderGraph_add_edges_between(graph, labels) ==
    [graph EXCEPT !.edges =
        @ \cup {ConsecutivePairs(labels)[i] : i \in DOMAIN ConsecutivePairs(labels)}]

\* ------------------------------------------------------------------ RenderGraphApp for App

\* The render app as the calls below see it: the RenderGraph resource (always
\* present in the render app, so the expect() on it succeeds), the log, and
\* the RenderGraphApp calls made on it since the running operation began, and
\* the nodes constructed from its world since then.
App ==
    [render_graph |-> render_graph, warn_log |-> warn_log, api_log |-> <<>>,
     created |-> <<>>]

\* The record of one RenderGraphApp call: its name and arguments, whether the
\* sub-graph was found, and the node labels of the sub-graph when it began.
ApiCall(app, op, sub_graph_name, labels) ==
    [op |-> op, sub_graph |-> sub_graph_name, labels |-> labels,
     found |-> sub_graph_name \in DOMAIN app.render_graph,
     nodes |-> IF sub_graph_name \in DOMAIN app.render_graph
               THEN DOMAIN app.render_graph[sub_graph_name].nodes ELSE {}]

\* The app with the call appended to the calls made on it.
called(app, op, sub_graph_name, labels) ==
    [app EXCEPT !.api_log = Append(@, ApiCall(app, op, sub_graph_name, labels))]

\* warn!(...): one record on the log.
warn(app) == [app EXCEPT !.warn_log = @ + 1]

\* render_graph.get_sub_graph_mut(name) is Some.
has_sub_graph(app, sub_graph_name) == sub_graph_name \in DOMAIN app.render_graph

\* add_node_to_render_graph creating the missing sub-graph instead of warning.
add_node_to_render_graph_on_demand(app, sub_graph_name, node_name, node) ==
    IF has_sub_graph(app, sub_graph_name)
    THEN [app EXCEPT !.render_graph[sub_graph_name] =
              RenderGraph_add_node(@, node_name, node)]
    ELSE [app EXCEPT !.render_graph =
              [n \in DOMAIN app.render_graph \cup {sub_graph_name} |->
                  IF n = sub_graph_name
                  THEN RenderGraph_add_node(RenderGraph_default, node_name, node)
                  ELSE app.render_graph[n]]]

add_node_to_render_graph(app, sub_graph_name, node_name, node) ==
    LET a == called(app, "add_node_to_render_graph", sub_graph_name, <<node_name>>)
    IN IF has_sub_graph(app, sub_graph_name)
       THEN [a EXCEPT !.render_graph[sub_graph_name] =
                 RenderGraph_add_node(@, node_name, node)]
       ELSE warn(a)

\* add_render_graph_edges joining only the two ends of the list.
add_render_graph_edges_ends(app, sub_graph_name, edges) ==
    LET a == called(app, "add_render_graph_edges", sub_graph_name, edges)
    IN IF has_sub_graph(app, sub_graph_name)
       THEN IF Len(edges) < 2 THEN a
            ELSE [a EXCEPT !.render_graph[sub_graph_name] =
                      RenderGraph_add_node_edge(@, edges[1], edges[Len(edges)])]
       ELSE warn(a)

add_render_graph_edges(app, sub_graph_name, edges) ==
    LET a == called(app, "add_render_graph_edges", sub_graph_name, edges)
    IN IF has_sub_graph(app, sub_graph_name)
       THEN [a EXCEPT !.render_graph[sub_graph_name] =
                 RenderGraph_add_edges_between(@, edges)]
       ELSE warn(a)

\* add_render_graph_edge adding the edge to every sub-graph of the render graph.
add_render_graph_edge_everywhere(app, sub_graph_name, output_edge, input_edge) ==
    LET a == called(app, "add_render_graph_edge", sub_graph_name,
                    <<output_edge, input_edge>>)
    IN IF has_sub_graph(app, sub_graph_name)
       THEN [a EXCEPT !.render_graph =
                 [m \in DOMAIN a.render_graph |->
                     RenderGraph_add_node_edge(a.render_graph[m], output_edge, input_edge)]]
       ELSE warn(a)

add_render_graph_edge(app, sub_graph_name, output_edge, input_edge) ==
    LET a == called(app, "add_render_graph_edge", sub_graph_name,
                    <<output_edge, input_edge>>)
    IN IF has_sub_graph(app, sub_graph_name)
       THEN [a EXCEPT !.render_graph[sub_graph_name] =
                 RenderGraph_add_node_edge(@, output_edge, input_edge)]
       ELSE warn(a)

\* add_render_sub_graph: the apps that may result (see RenderGraph_add_sub_graph).
add_render_sub_graph(app, sub_graph_name) ==
    {[called(app, "add_render_sub_graph", sub_graph_name, <<>>)
          EXCEPT !.render_graph = g] :
        g \in RenderGraph_add_sub_graph(app.render_graph, sub_graph_name,
                                        RenderGraph_default)}

\* ------------------------------------------------------------------ pipelining

\* PipelineNode::add_node adding the node under the name of its type.
PipelineNode_add_node_by_type(app, pipeline_node, sub_graph_name) ==
    add_node_to_render_graph(app, sub_graph_name, create_node(pipeline_node),
                             create_node(pipeline_node))

\* self.node_factory().create_node(&mut render_app.world): the node is
\* constructed from the world, before the RenderGraphApp call that follows.
constructed(app, pipeline_node) ==
    [app EXCEPT !.created =
        Append(@, [node |-> pipeline_node, before_call |-> Len(app.api_log) + 1])]

\* PipelineNode::add_node constructing the node only when the sub-graph exists.
PipelineNode_add_node_checked_first(app, pipeline_node, sub_graph_name) ==
    add_node_to_render_graph(
        IF has_sub_graph(app, sub_graph_name)
        THEN constructed(app, pipeline_node) ELSE app,
        sub_graph_name, label(pipeline_node), create_node(pipeline_node))

\* PipelineNode::add_node: create the node from its factory, then add it under
\* the pipeline node's label.
PipelineNode_add_node(app, pipeline_node, sub_graph_name) ==
    add_node_to_render_graph(constructed(app, pipeline_node), sub_graph_name,
                             label(pipeline_node), create_node(pipeline_node))

\* The loop leaving at the first node whose sub-graph is missing.
RECURSIVE add_nodes_until_missing(_, _, _)
add_nodes_until_missing(app, node_sequence, sub_graph_name) ==
    IF node_sequence = <<>> THEN app
    ELSE IF ~has_sub_graph(app, sub_graph_name)
         THEN PipelineNode_add_node(app, Head(node_sequence), sub_graph_name)
         ELSE add_nodes_until_missing(
                  PipelineNode_add_node(app, Head(node_sequence), sub_graph_name),
                  Tail(node_sequence), sub_graph_name)

\* for pipeline_node in self.node_sequence.iter() { pipeline_node.add_node(..) }
RECURSIVE add_nodes(_, _, _)
add_nodes(app, node_sequence, sub_graph_name) ==
    IF node_sequence = <<>> THEN app
    ELSE add_nodes(PipelineNode_add_node(app, Head(node_sequence), sub_graph_name),
                   Tail(node_sequence), sub_graph_name)

\* The edge vector without the chained existing_target.
edge_chain_no_target(seq, existing_root, existing_target) ==
    existing_root \o seq.label_sequence

\* The vector handed to add_render_graph_edges by insert_into_sub_graph.
edge_chain(seq, existing_root, existing_target) ==
    existing_root \o seq.label_sequence \o existing_target

\* insert_into_sub_graph returning early on an empty node_sequence.
insert_into_sub_graph_skip_empty(app, seq, sub_graph_name, existing_root, existing_target) ==
    IF seq.node_sequence = <<>> THEN app
    ELSE add_render_graph_edges(
             add_nodes(app, seq.node_sequence, sub_graph_name),
             sub_graph_name,
             existing_root \o seq.label_sequence \o existing_target)

\* insert_into_sub_graph submitting the edges before it adds the nodes.
insert_into_sub_graph_edges_first(app, seq, sub_graph_name, existing_root, existing_target) ==
    add_nodes(
        add_render_graph_edges(app, sub_graph_name,
                               existing_root \o seq.label_sequence \o existing_target),
        seq.node_sequence,
        sub_graph_name)

\* A sequence whose label vector is moved out by a placement instead of cloned.
self_after_placement_drained(seq) == [seq EXCEPT !.label_sequence = <<>>]

\* The sequence after create_new_sub_graph or insert_into_sub_graph: both
\* take &self, iterate node_sequence by reference and clone label_sequence.
self_after_placement(seq) == seq

\* PipelineSequence::insert_into_sub_graph.
insert_into_sub_graph(app, seq, sub_graph_name, existing_root, existing_target) ==
    add_render_graph_edges(
        add_nodes(app, seq.node_sequence, sub_graph_name),
        sub_graph_name,
        edge_chain(seq, existing_root, existing_target))

\* create_new_sub_graph without the add_render_sub_graph call.
create_new_sub_graph_no_add(app, seq, sub_graph_name) ==
    {insert_into_sub_graph(app, seq, sub_graph_name, None, None)}

\* create_new_sub_graph creating and filling the sub-graph named by the
\* sequence's own pipeline label.
create_new_sub_graph_own_label(app, seq, sub_graph_name) ==
    {insert_into_sub_graph(a, seq, seq.pipeline_label, None, None) :
        a \in add_render_sub_graph(app, seq.pipeline_label)}

\* PipelineSequence::create_new_sub_graph: the apps that may result.
create_new_sub_graph(app, seq, sub_graph_name) ==
    {insert_into_sub_graph(a, seq, sub_graph_name, None, None) :
        a \in add_render_sub_graph(app, sub_graph_name)}

\* insert_into_sub_graph when create_node of the k-th pipeline node panics
\* (N::from_world returns Self, so a failed construction is a panic): the
\* nodes before it were added one by one, the k-th add_node stops before its
\* add_node_to_render_graph, and the unwinding skips the rest of the loop and
\* the add_render_graph_edges call. Nothing catches the panic or removes the
\* nodes already added.
insert_into_sub_graph_panic(app, seq, sub_graph_name, k) ==
    add_nodes(app, SubSeq(seq.node_sequence, 1, k - 1), sub_graph_name)

\* create_new_sub_graph when create_node of the k-th pipeline node panics.
create_new_sub_graph_panic(app, seq, sub_graph_name, k) ==
    {insert_into_sub_graph_panic(a, seq, sub_graph_name, k) :
        a \in add_render_sub_graph(app, sub_graph_name)}

\* ------------------------------------------------------------------ FxaaPlugin

CORE_3D == "core_3d"

\* The node labels of the core 3d pipeline the plugin names.
core_3d_TONEMAPPING == "core_3d::graph::node::TONEMAPPING"

core_3d_FXAA == "core_3d::graph::node::FXAA"

core_3d_END_MAIN_PASS == "core_3d::graph::node::END_MAIN_PASS"

core_3d_END_MAIN_PASS_POST_PROCESSING ==
    "core_3d::graph::node::END_MAIN_PASS_POST_PROCESSING"

\* #[derive(Default)] for FxaaPlugin: both flags false.
FxaaPlugin_default == [tonemapping2d |-> FALSE, tonemapping3d |-> FALSE]

\* FxaaPlugin::generate_2d_edges.
generate_2d_edges(self) ==
    LET following_node ==
            IF self.tonemapping2d THEN TONEMAPPING ELSE END_MAIN_PASS_POST_PROCESSING
    IN <<MAIN_PASS, BLOOM, following_node>>

\* FxaaPlugin::generate_3d_edges: following_node is computed from
\* tonemapping2d and not used in the array returned.
generate_3d_edges(self) ==
    LET following_node ==
            IF self.tonemapping2d THEN core_3d_TONEMAPPING ELSE core_3d_END_MAIN_PASS
    IN <<core_3d_TONEMAPPING, core_3d_FXAA, core_3d_END_MAIN_PASS_POST_PROCESSING>>

\* add_render_graph_node::<T>: T::from_world, then add_node_to_render_graph.
add_render_graph_node(app, sub_graph_name, node_name, node_type) ==
    add_node_to_render_graph(constructed(app, node_type), sub_graph_name,
                             node_name, node_type)

\* The render graph calls of FxaaPlugin::build, in their order.
FxaaPlugin_build(app, self) ==
    add_render_graph_edges(
        add_render_graph_node(
            add_render_graph_edges(
                add_render_graph_node(app, CORE_3D, core_3d_FXAA,
                                      "ViewNodeRunner<FxaaNode>"),
                CORE_3D, generate_3d_edges(self)),
            CORE_2D, FXAA, "ViewNodeRunner<FxaaNode>"),
        CORE_2D, generate_2d_edges(self))

\* ------------------------------------------------------------------ inputs

\* The plugin values: FxaaPlugin is Copy with two private flags.
FxaaPlugins == [tonemapping2d : BOOLEAN, tonemapping3d : BOOLEAN]

\* Sub-graph names the calls are made with.
SubGraphNames == {CORE_2D, "core_3d"}

\* Pipeline labels a Core2dPipelineSettings or a PipelineSequence is given.
PipelineLabels == {CORE_2D, "core_3d"}

RECURSIVE SeqsUpTo(_, _)
\* The sequences over S of length at most n.
SeqsUpTo(S, n) ==
    IF n = 0 THEN {<<>>}
    ELSE SeqsUpTo(S, n - 1) \cup
         {Append(q, x) : q \in {r \in SeqsUpTo(S, n - 1) : Len(r) = n - 1}, x \in S}

\* Node vectors handed to a sequencer other than the core one.
Catalogues == SeqsUpTo({"MainPass", "Bloom", "Tonemapping"}, MaxLen)

\* Node vectors handed to PipelineSequence::new directly.
NodeVectors == SeqsUpTo({"Bloom", "Fxaa"}, MaxLen)

\* (existing_root, existing_target) pairs handed to insert_into_sub_graph.
AnchorPairs ==
    {<<None, None>>, <<Some("A"), None>>, <<None, Some("B")>>,
     <<Some("A"), Some("B")>>, <<Some("A"), Some("A")>>,
     <<Some(BLOOM), Some(BLOOM)>>}

\* Node labels handed to add_node_to_render_graph and the edge calls.
NodeNames == {"A", "B"}

\* Label vectors handed to add_render_graph_edges.
EdgeVectors == SeqsUpTo(NodeNames, MaxLen + 1)

\* Every Core2dPipelineSettings value: the public fields are free, the two
\* label fields are private and keep their default.
AllPipelineSettings ==
    {[Core2dPipelineSettings_default EXCEPT
         !.pipeline_label = p, !.tonemapping = t, !.bloom = b] :
        p \in PipelineLabels, t \in BOOLEAN, b \in BOOLEAN}

\* ------------------------------------------------------------------ calls

\* What a call records of the call made before it.
NoPrev ==
    [op |-> "none", sub_graph |-> "", labels |-> <<>>, source |-> None,
     target |-> None, existed |-> FALSE]

\* The record of a call: fields a call does not use keep these values.
NoCall ==
    [op |-> "none", sub_graph |-> "", labels |-> <<>>, source |-> None,
     target |-> None, existed |-> FALSE, key |-> "", value |-> FALSE,
     ret |-> None, trace |-> <<>>, panic_at |-> 0, created |-> <<>>,
     prev |-> NoPrev, plugin |-> FxaaPlugin_default]

Call_get_bool ==
    \E l \in SettingKeys :
        /\ last' = [NoCall EXCEPT !.op = "get_bool", !.key = l,
                                  !.ret = Some(get_bool(settings, l))]
        /\ UNCHANGED <<settings, psettings, sequence, built_by, render_graph, warn_log, calls>>

Call_set_bool ==
    \E l \in SettingKeys, value \in BOOLEAN :
        /\ settings' = set_bool_map(settings, l, value)
        /\ last' = [NoCall EXCEPT !.op = "set_bool", !.key = l, !.value = value,
                                  !.ret = set_bool(settings, l, value)]
        /\ UNCHANGED <<psettings, sequence, built_by, render_graph, warn_log, calls>>

\* get_map_mut().remove(label): a write through the mutable map reference.
Call_get_map_mut_remove ==
    \E l \in DOMAIN settings :
        /\ settings' = map_remove(settings, l)
        /\ last' = [NoCall EXCEPT !.op = "get_map_mut.remove", !.key = l,
                                  !.ret = Some(settings[l])]
        /\ UNCHANGED <<psettings, sequence, built_by, render_graph, warn_log, calls>>

\* A write to the public fields of Core2dPipelineSettings.
Call_assign_pipeline_settings ==
    \E s \in AllPipelineSettings :
        /\ s # psettings
        /\ psettings' = s
        /\ last' = [NoCall EXCEPT !.op = "assign_pipeline_settings"]
        /\ UNCHANGED <<settings, sequence, built_by, render_graph, warn_log, calls>>

Call_create_core_sequence ==
    /\ calls = 0
    /\ sequence' = Some(create_core_sequence(settings))
    /\ built_by' = "create_core_sequence"
    /\ last' = [NoCall EXCEPT !.op = "create_core_sequence",
                              !.labels = [i \in 1..Len(CoreCatalogue) |->
                                             label(CoreCatalogue[i])]]
    /\ UNCHANGED <<settings, psettings, render_graph, warn_log, calls>>

\* A sequencer generated by create_simple_sequencer! for another node vector.
Call_create_simple_sequencer ==
    \E c \in Catalogues :
        /\ calls = 0
        /\ sequence' = Some(create_simple_sequencer(c, settings))
        /\ built_by' = "create_simple_sequencer"
        /\ last' = [NoCall EXCEPT !.op = "create_simple_sequencer",
                                  !.labels = [i \in 1..Len(c) |-> label(c[i])]]
        /\ UNCHANGED <<settings, psettings, render_graph, warn_log, calls>>

Call_create_msaa_writeback_sequence ==
    /\ calls = 0
    /\ sequence' = Some(create_msaa_writeback_sequence)
    /\ built_by' = "create_msaa_writeback_sequence"
    /\ last' = [NoCall EXCEPT !.op = "create_msaa_writeback_sequence",
                              !.labels = <<label("MsaaWriteback")>>]
    /\ UNCHANGED <<settings, psettings, render_graph, warn_log, calls>>

Call_create_core_pipeline_sequence ==
    /\ calls = 0
    /\ sequence' = Some(create_core_pipeline_sequence(psettings))
    /\ built_by' = "create_core_pipeline_sequence"
    /\ last' = [NoCall EXCEPT !.op = "create_core_pipeline_sequence",
                              !.labels = [i \in 1..Len(PipelineCatalogue) |->
                                             label(PipelineCatalogue[i])]]
    /\ UNCHANGED <<settings, psettings, render_graph, warn_log, calls>>

Call_PipelineSequence_new ==
    \E p \in PipelineLabels, v \in NodeVectors :
        /\ calls = 0
        /\ sequence' = Some(PipelineSequence_new(p, v))
        /\ built_by' = "PipelineSequence::new"
        /\ last' = [NoCall EXCEPT !.op = "PipelineSequence::new",
                                  !.labels = [i \in 1..Len(v) |-> label(v[i])]]
        /\ UNCHANGED <<settings, psettings, render_graph, warn_log, calls>>

Call_add_render_sub_graph ==
    \E n \in SubGraphNames :
        /\ calls < MaxCalls
        /\ last.panic_at = 0
        /\ \E a \in add_render_sub_graph(App, n) :
               /\ render_graph' = a.render_graph
               /\ warn_log' = a.warn_log
        /\ calls' = calls + 1
        /\ last' = [NoCall EXCEPT !.op = "add_render_sub_graph", !.sub_graph = n,
                                  !.existed = has_sub_graph(App, n),
                                  !.prev = [op |-> last.op,
                                            sub_graph |-> last.sub_graph,
                                            labels |-> last.labels,
                                            source |-> last.source,
                                            target |-> last.target,
                                            existed |-> last.existed]]
        /\ UNCHANGED <<settings, psettings, sequence, built_by>>

Call_add_node_to_render_graph ==
    \E n \in SubGraphNames, l \in NodeNames :
        /\ calls < MaxCalls
        /\ last.panic_at = 0
        /\ render_graph' = add_node_to_render_graph(App, n, l, "EmptyNode").render_graph
        /\ warn_log' = add_node_to_render_graph(App, n, l, "EmptyNode").warn_log
        /\ calls' = calls + 1
        /\ last' = [NoCall EXCEPT !.op = "add_node_to_render_graph", !.sub_graph = n,
                                  !.labels = <<l>>, !.existed = has_sub_graph(App, n)]
        /\ UNCHANGED <<settings, psettings, sequence, built_by>>

Call_add_render_graph_edges ==
    \E n \in SubGraphNames, e \in EdgeVectors :
        /\ calls < MaxCalls
        /\ last.panic_at = 0
        /\ render_graph' = add_render_graph_edges(App, n, e).render_graph
        /\ warn_log' = add_render_graph_edges(App, n, e).warn_log
        /\ calls' = calls + 1
        /\ last' = [NoCall EXCEPT !.op = "add_render_graph_edges", !.sub_graph = n,
                                  !.labels = e, !.existed = has_sub_graph(App, n)]
        /\ UNCHANGED <<settings, psettings, sequence, built_by>>

Call_add_render_graph_edge ==
    \E n \in SubGraphNames, o \in NodeNames, i \in NodeNames :
        /\ calls < MaxCalls
        /\ last.panic_at = 0
        /\ render_graph' = add_render_graph_edge(App, n, o, i).render_graph
        /\ warn_log' = add_render_graph_edge(App, n, o, i).warn_log
        /\ calls' = calls + 1
        /\ last' = [NoCall EXCEPT !.op = "add_render_graph_edge", !.sub_graph = n,
                                  !.labels = <<o, i>>, !.existed = has_sub_graph(App, n)]
        /\ UNCHANGED <<settings, psettings, sequence, built_by>>

Call_create_new_sub_graph ==
    \E n \in SubGraphNames :
        /\ calls < MaxCalls
        /\ last.panic_at = 0
        /\ sequence # None
        /\ \E a \in create_new_sub_graph(App, sequence[1], n) :
               /\ render_graph' = a.render_graph
               /\ warn_log' = a.warn_log
               /\ last' = [NoCall EXCEPT !.op = "create_new_sub_graph", !.sub_graph = n,
                                         !.labels = sequence[1].label_sequence,
                                         !.existed = has_sub_graph(App, n),
                                         !.trace = a.api_log,
                                         !.created = a.created]
        /\ calls' = calls + 1
        /\ sequence' = Some(self_after_placement(sequence[1]))
        /\ UNCHANGED <<settings, psettings, built_by>>

Call_insert_into_sub_graph ==
    \E n \in SubGraphNames, anchors \in AnchorPairs :
        /\ calls < MaxCalls
        /\ last.panic_at = 0
        /\ sequence # None
        /\ render_graph' =
               insert_into_sub_graph(App, sequence[1], n, anchors[1], anchors[2]).render_graph
        /\ warn_log' =
               insert_into_sub_graph(App, sequence[1], n, anchors[1], anchors[2]).warn_log
        /\ calls' = calls + 1
        /\ last' = [NoCall EXCEPT !.op = "insert_into_sub_graph", !.sub_graph = n,
                                  !.labels = sequence[1].label_sequence,
                                  !.source = anchors[1], !.target = anchors[2],
                                  !.existed = has_sub_graph(App, n),
                                  !.trace =
                                      insert_into_sub_graph(App, sequence[1], n,
                                          anchors[1], anchors[2]).api_log,
                                  !.created =
                                      insert_into_sub_graph(App, sequence[1], n,
                                          anchors[1], anchors[2]).created]
        /\ sequence' = Some(self_after_placement(sequence[1]))
        /\ UNCHANGED <<settings, psettings, built_by>>

\* insert_into_sub_graph during which the construction of the k-th node fails.
Call_insert_into_sub_graph_panic ==
    \E n \in SubGraphNames, anchors \in AnchorPairs :
        /\ calls < MaxCalls
        /\ last.panic_at = 0
        /\ sequence # None
        /\ \E k \in 1..Len(sequence[1].node_sequence) :
               /\ render_graph' =
                      insert_into_sub_graph_panic(App, sequence[1], n, k).render_graph
               /\ warn_log' =
                      insert_into_sub_graph_panic(App, sequence[1], n, k).warn_log
               /\ last' = [NoCall EXCEPT
                               !.op = "insert_into_sub_graph_panic", !.sub_graph = n,
                               !.labels = sequence[1].label_sequence,
                               !.source = anchors[1], !.target = anchors[2],
                               !.existed = has_sub_graph(App, n),
                               !.trace =
                                   insert_into_sub_graph_panic(App, sequence[1], n, k).api_log,
                               !.created =
                                   insert_into_sub_graph_panic(App, sequence[1], n, k).created,
                               !.panic_at = k]
        /\ calls' = calls + 1
        /\ UNCHANGED <<settings, psettings, sequence, built_by>>

\* create_new_sub_graph during which the construction of the k-th node fails.
Call_create_new_sub_graph_panic ==
    \E n \in SubGraphNames :
        /\ calls < MaxCalls
        /\ last.panic_at = 0
        /\ sequence # None
        /\ \E k \in 1..Len(sequence[1].node_sequence) :
               \E a \in create_new_sub_graph_panic(App, sequence[1], n, k) :
                   /\ render_graph' = a.render_graph
                   /\ warn_log' = a.warn_log
                   /\ last' = [NoCall EXCEPT
                                   !.op = "create_new_sub_graph_panic", !.sub_graph = n,
                                   !.labels = sequence[1].label_sequence,
                                   !.existed = has_sub_graph(App, n),
                                   !.trace = a.api_log,
                                   !.created = a.created,
                                   !.panic_at = k]
        /\ calls' = calls + 1
        /\ UNCHANGED <<settings, psettings, sequence, built_by>>

Call_generate_2d_edges ==
    \E p \in FxaaPlugins :
        /\ last' = [NoCall EXCEPT !.op = "generate_2d_edges", !.plugin = p,
                                  !.labels = generate_2d_edges(p)]
        /\ UNCHANGED <<settings, psettings, sequence, built_by, render_graph,
                       warn_log, calls>>

Call_generate_3d_edges ==
    \E p \in FxaaPlugins :
        /\ last' = [NoCall EXCEPT !.op = "generate_3d_edges", !.plugin = p,
                                  !.labels = generate_3d_edges(p)]
        /\ UNCHANGED <<settings, psettings, sequence, built_by, render_graph,
                       warn_log, calls>>

Call_FxaaPlugin_build ==
    \E p \in FxaaPlugins :
        /\ calls < MaxCalls
        /\ last.panic_at = 0
        /\ render_graph' = FxaaPlugin_build(App, p).render_graph
        /\ warn_log' = FxaaPlugin_build(App, p).warn_log
        /\ calls' = calls + 1
        /\ last' = [NoCall EXCEPT !.op = "FxaaPlugin::build", !.plugin = p,
                                  !.trace = FxaaPlugin_build(App, p).api_log,
                                  !.created = FxaaPlugin_build(App, p).created]
        /\ UNCHANGED <<settings, psettings, sequence, built_by>>

\* ------------------------------------------------------------------ specifications

\* The settings of a fresh plugin, no sequence built, an empty render graph.
InitDefault ==
    /\ settings = Core2dSettings_default
    /\ psettings = Core2dPipelineSettings_default
    /\ sequence = None
    /\ built_by = "none"
    /\ render_graph = <<>>
    /\ warn_log = 0
    /\ calls = 0
    /\ last = NoCall

\* Configuration: reads and writes of the two settings values.
NextSettings ==
    \/ Call_get_bool
    \/ Call_set_bool
    \/ Call_get_map_mut_remove
    \/ Call_assign_pipeline_settings

SpecSettings == InitDefault /\ [][NextSettings]_vars

\* Every HashMap over the labels of the required stages.
RequiredSettings ==
    UNION {[D -> BOOLEAN] :
              D \in SUBSET {MAIN_PASS, END_MAIN_PASS_POST_PROCESSING, UPSCALING}}

\* The configurations a sequence is built from: any Core2dSettings map beside
\* the default pipeline settings, or any pipeline settings beside the default map.
BuildConfigs ==
    {<<s, Core2dPipelineSettings_default>> : s \in AllSettings \cup RequiredSettings}
    \cup {<<Core2dSettings_default, p>> : p \in AllPipelineSettings}

\* Sequence building from the configurations SpecSettings reaches.
InitBuild ==
    /\ \E c \in BuildConfigs : settings = c[1] /\ psettings = c[2]
    /\ sequence = None
    /\ built_by = "none"
    /\ render_graph = <<>>
    /\ warn_log = 0
    /\ calls = 0
    /\ last = NoCall

NextBuild ==
    \/ Call_create_core_sequence
    \/ Call_create_simple_sequencer
    \/ Call_create_msaa_writeback_sequence
    \/ Call_create_core_pipeline_sequence

SpecBuild == InitBuild /\ [][NextBuild]_vars

\* The RenderGraphApp calls on their own.
NextApi ==
    \/ Call_add_render_sub_graph
    \/ Call_add_node_to_render_graph
    \/ Call_add_render_graph_edges
    \/ Call_add_render_graph_edge

SpecApi == InitDefault /\ [][NextApi]_vars

\* The render graphs a plugin finds when the core 2d sub-graph was already
\* created from the default core sequence.
Core2dGraphs ==
    {a.render_graph :
        a \in create_new_sub_graph(
                  [render_graph |-> <<>>, warn_log |-> 0, api_log |-> <<>>,
                   created |-> <<>>],
                  create_core_sequence(Core2dSettings_default), CORE_2D)}

\* A later plugin: the core 2d sub-graph is in place, no sequence of its own yet.
InitPlugin ==
    /\ settings = Core2dSettings_default
    /\ psettings = Core2dPipelineSettings_default
    /\ sequence = None
    /\ built_by = "none"
    /\ render_graph \in Core2dGraphs
    /\ warn_log = 0
    /\ calls = 0
    /\ last = NoCall

\* The RenderGraphApp calls and the insertion of a sequence a later plugin makes.
NextPlugin ==
    \/ Call_add_render_sub_graph
    \/ Call_add_node_to_render_graph
    \/ Call_add_render_graph_edges
    \/ Call_add_render_graph_edge
    \/ Call_create_msaa_writeback_sequence
    \/ Call_insert_into_sub_graph

SpecPlugin == InitPlugin /\ [][NextPlugin]_vars

\* One plugin's use of its settings and its sequence: the core sequence is
\* built, the settings are written, the sequence is placed into sub-graphs.
NextUse ==
    \/ Call_create_core_sequence
    \/ Call_set_bool
    \/ Call_create_new_sub_graph

SpecUse == InitDefault /\ [][NextUse]_vars

\* FxaaPlugin on a render app that holds the core 2d sub-graph.
NextFxaa ==
    \/ Call_add_render_sub_graph
    \/ Call_generate_2d_edges
    \/ Call_generate_3d_edges
    \/ Call_FxaaPlugin_build

SpecFxaa == InitPlugin /\ [][NextFxaa]_vars

\* The configurations a plugin starts from: the defaults with at most one
\* label of the core catalogue switched off, or one public field of the
\* pipeline settings changed.
StartConfigs ==
    {<<s, Core2dPipelineSettings_default>> :
        s \in {Core2dSettings_default} \cup
              {set_bool_map(Core2dSettings_default, label(CoreCatalogue[i]), FALSE) :
                   i \in 1..Len(CoreCatalogue)}}
    \cup
    {<<Core2dSettings_default, p>> :
        p \in {[Core2dPipelineSettings_default EXCEPT !.bloom = FALSE],
               [Core2dPipelineSettings_default EXCEPT !.tonemapping = FALSE],
               [Core2dPipelineSettings_default EXCEPT !.pipeline_label = "core_3d"]}}

Init ==
    /\ \E c \in StartConfigs : settings = c[1] /\ psettings = c[2]
    /\ sequence = None
    /\ built_by = "none"
    /\ render_graph = <<>>
    /\ warn_log = 0
    /\ calls = 0
    /\ last = NoCall

\* A plugin build: a sequence is built, then placed into the render graph.
Next ==
    \/ Call_create_core_sequence
    \/ Call_create_msaa_writeback_sequence
    \/ Call_create_core_pipeline_sequence
    \/ Call_PipelineSequence_new
    \/ Call_add_render_sub_graph
    \/ Call_create_new_sub_graph
    \/ Call_insert_into_sub_graph
    \/ Call_insert_into_sub_graph_panic
    \/ Call_create_new_sub_graph_panic

Spec == Init /\ [][Next]_vars

\* ------------------------------------------------------------------ helpers of the properties

\* The elements of a sequence.
Range(q) == {q[i] : i \in DOMAIN q}

RECURSIVE IsSubsequence(_, _)
\* a is b with some elements left out, the others in their order.
IsSubsequence(a, b) ==
    IF a = <<>> THEN TRUE
    ELSE IF b = <<>> THEN FALSE
    ELSE IF Head(a) = Head(b) THEN IsSubsequence(Tail(a), Tail(b))
    ELSE IsSubsequence(a, Tail(b))

\* The least index of x in q (0 when x is not in q).
IndexIn(q, x) ==
    IF x \in Range(q) THEN CHOOSE i \in DOMAIN q : q[i] = x /\ \A j \in 1..(i - 1) : q[j] # x
    ELSE 0

\* No element occurs twice in q.
NoRepeat(q) == \A i, j \in DOMAIN q : q[i] = q[j] => i = j

\* The sequencers that filter a node vector, and the labels of that vector.
FilteringBuilders ==
    {"create_core_sequence", "create_simple_sequencer", "create_core_pipeline_sequence"}

\* A sequence was just built by a filtering sequencer from the vector whose
\* labels are last.labels.
JustBuilt == sequence # None /\ last.op \in FilteringBuilders /\ last.op = built_by

\* ------------------------------------------------------------------ C1

\* C1: the sequence built from a catalogue is a subsequence of the catalogue
\* in the same relative order: its labels are the catalogue's labels with some
\* left out, and of two kept stages of a catalogue without repeated labels the
\* one earlier in the result is earlier in the catalogue.
C1_OrderPreserved ==
    JustBuilt =>
        LET kept == sequence[1].label_sequence
        IN /\ IsSubsequence(kept, last.labels)
           /\ NoRepeat(last.labels) =>
                  \A i, j \in DOMAIN kept :
                      i < j => IndexIn(last.labels, kept[i]) < IndexIn(last.labels, kept[j])

\* A catalogue of which one stage was dropped and two or more were kept.
C1_Witness ==
    /\ JustBuilt
    /\ Len(sequence[1].label_sequence) >= 2
    /\ Len(sequence[1].label_sequence) < Len(last.labels)

\* ------------------------------------------------------------------ C2

\* C2 (as claimed): in the core 2D sequence each optional stage Bloom,
\* Tonemapping and Fxaa is kept if and only if settings.get(label) is not false.
C2_OptionalKeptIffNotFalse ==
    (sequence # None /\ last.op = "create_core_sequence") =>
        \A l \in {BLOOM, TONEMAPPING, FXAA} :
            (l \in Range(sequence[1].label_sequence)) <=> get_bool(settings, l)

\* ------------------------------------------------------------------ C3

\* q without its elements equal to x.
Without(q, x) == SelectSeq(q, LAMBDA y : y # x)

\* The labels of the core catalogue.
CoreLabels == [i \in 1..Len(CoreCatalogue) |-> label(CoreCatalogue[i])]

\* C3 (as claimed, for the optional stages): with exactly one label L of the
\* default settings set to false, the core sequence is the catalogue without
\* the stage labelled L, and a sub-graph created from it links L's former
\* predecessor directly to L's former successor.
C3_OptOutRemovesExactlyThatStage ==
    \A L \in {BLOOM, TONEMAPPING, FXAA} :
        (/\ sequence # None
         /\ built_by = "create_core_sequence"
         /\ settings = set_bool_map(Core2dSettings_default, L, FALSE)) =>
            /\ sequence[1].label_sequence = Without(CoreLabels, L)
            /\ (last.op = "create_new_sub_graph" /\ ~last.existed) =>
                   /\ L \notin DOMAIN render_graph[last.sub_graph].nodes
                   /\ <<CoreLabels[IndexIn(CoreLabels, L) - 1],
                         CoreLabels[IndexIn(CoreLabels, L) + 1]>>
                          \in render_graph[last.sub_graph].edges

\* ------------------------------------------------------------------ C4

\* C4: built from settings with an empty mapping, the sequence is the whole
\* catalogue in its order: no stage is dropped.
C4_EmptySettingsKeepAll ==
    (JustBuilt /\ last.op # "create_core_pipeline_sequence" /\ DOMAIN settings = {}) =>
        /\ sequence[1].label_sequence = last.labels
        /\ Len(sequence[1].node_sequence) = Len(last.labels)
        /\ \A i \in DOMAIN last.labels :
               label(sequence[1].node_sequence[i]) = last.labels[i]

\* The core sequence built from the empty mapping holds all six stages.
C4_Witness ==
    /\ JustBuilt
    /\ last.op = "create_core_sequence"
    /\ DOMAIN settings = {}
    /\ Len(sequence[1].label_sequence) = 6

\* ------------------------------------------------------------------ C9

\* C9: get_bool returns the boolean stored for the label when one is stored,
\* and true for a label absent from the mapping.
C9_GetStoredOrTrue ==
    last.op = "get_bool" =>
        IF last.key \in DOMAIN settings
        THEN last.ret = Some(settings[last.key])
        ELSE last.ret = Some(TRUE)

\* A read of an absent label from a mapping that stores a false.
C9_Witness ==
    /\ last.op = "get_bool"
    /\ last.key \notin DOMAIN settings
    /\ last.ret = Some(TRUE)
    /\ \E k \in DOMAIN settings : settings[k] = FALSE

\* ------------------------------------------------------------------ C10

\* C10 (as claimed): set_bool returns what get_bool returned before the call
\* (the default true for an absent label); afterwards get_bool of the label is
\* the value and get_bool of every other label is unchanged.
C10_SetReturnsOldOrDefault ==
    [][last'.op = "set_bool" =>
          /\ last'.ret = Some(get_bool(settings, last'.key))
          /\ get_bool(settings', last'.key) = last'.value
          /\ \A k \in SettingKeys \ {last'.key} :
                 get_bool(settings', k) = get_bool(settings, k)]_vars

\* C10 (amended): set_bool returns the value stored before the call, or None
\* when the label was absent; afterwards get_bool of the label is the value
\* and every other label is stored, or absent, as before.
C10_SetReturnsOldOrNone ==
    [][last'.op = "set_bool" =>
          /\ last'.ret = (IF last'.key \in DOMAIN settings
                          THEN Some(settings[last'.key]) ELSE None)
          /\ get_bool(settings', last'.key) = last'.value
          /\ \A k \in SettingKeys \ {last'.key} :
                 /\ get_bool(settings', k) = get_bool(settings, k)
                 /\ (k \in DOMAIN settings') <=> (k \in DOMAIN settings)]_vars

\* A write of false to a label that was absent: nothing is returned.
C10_Witness ==
    /\ last.op = "set_bool"
    /\ last.ret = None
    /\ last.value = FALSE
    /\ get_bool(settings, last.key) = FALSE

\* ------------------------------------------------------------------ C5

\* The edges between the consecutive elements of a list of labels.
ChainEdges(chain) == {<<chain[i], chain[i + 1]>> : i \in 1..(Len(chain) - 1)}

\* max(0, n).
Max0(n) == IF n < 0 THEN 0 ELSE n

C6_EmptySequence ==
    [][(last'.op = "insert_into_sub_graph" /\ last'.labels = <<>>) =>
          IF last'.existed
          THEN LET n == last'.sub_graph
               IN /\ DOMAIN render_graph' = DOMAIN render_graph
                  /\ render_graph'[n].nodes = render_graph[n].nodes
                  /\ render_graph'[n].edges =
                         render_graph[n].edges \cup
                         (IF last'.source # None /\ last'.target # None
                          THEN {<<last'.source[1], last'.target[1]>>}
                          ELSE {})
          ELSE render_graph' = render_graph]_vars

\* An empty sequence between the anchors A and B: the one edge A->B, no node.
C6_Witness ==
    /\ last.op = "insert_into_sub_graph"
    /\ last.labels = <<>>
    /\ last.existed
    /\ last.source = Some("A")
    /\ last.target = Some("B")
    /\ render_graph[last.sub_graph].edges = {<<"A", "B">>}
    /\ DOMAIN render_graph[last.sub_graph].nodes = {}

\* ------------------------------------------------------------------ C7

\* The calls that add a node or edges to a named sub-graph.
MutationCalls ==
    {"add_node_to_render_graph", "add_render_graph_edges", "add_render_graph_edge"}

\* C7: a call of add_node, add_edges or add_edge naming a sub-graph that was
\* never added leaves the whole render graph unchanged and emits exactly one
\* warning.
C7_MissingSubGraphNoOp ==
    [][(last'.op \in MutationCalls /\ ~last'.existed) =>
          /\ render_graph' = render_graph
          /\ warn_log' = warn_log + 1]_vars

\* A call on a missing sub-graph beside a sub-graph that exists.
C7_Witness ==
    /\ last.op \in MutationCalls
    /\ ~last.existed
    /\ warn_log = 1
    /\ DOMAIN render_graph # {}

\* ------------------------------------------------------------------ C8

\* C8: the sequence built by create_core_pipeline_sequence with bloom switched
\* off, placed by create_new_sub_graph("core_2d") into a graph without that
\* sub-graph, gives the 4 nodes MainPass, Tonemapping,
\* EndMainPassPostProcessing, Upscaling and the 3 edges between them in order.
C8_EndToEnd ==
    (/\ built_by = "create_core_pipeline_sequence"
     /\ psettings.bloom = FALSE
     /\ psettings.tonemapping = TRUE
     /\ last.op = "create_new_sub_graph"
     /\ last.sub_graph = "core_2d"
     /\ ~last.existed) =>
        /\ "core_2d" \in DOMAIN render_graph
        /\ render_graph["core_2d"].nodes =
               [l \in {MAIN_PASS, TONEMAPPING, END_MAIN_PASS_POST_PROCESSING, UPSCALING} |->
                   CASE l = MAIN_PASS -> "MainPass2dNode"
                     [] l = TONEMAPPING -> "ViewNodeRunner<TonemappingNode>"
                     [] l = END_MAIN_PASS_POST_PROCESSING -> "EmptyNode"
                     [] l = UPSCALING -> "ViewNodeRunner<UpscalingNode>"]
        /\ render_graph["core_2d"].edges =
               {<<MAIN_PASS, TONEMAPPING>>,
                <<TONEMAPPING, END_MAIN_PASS_POST_PROCESSING>>,
                <<END_MAIN_PASS_POST_PROCESSING, UPSCALING>>}

\* The scenario ran: the new sub-graph holds 4 nodes and 3 edges.
C8_Witness ==
    /\ built_by = "create_core_pipeline_sequence"
    /\ psettings.bloom = FALSE
    /\ psettings.tonemapping = TRUE
    /\ last.op = "create_new_sub_graph"
    /\ last.sub_graph = "core_2d"
    /\ ~last.existed
    /\ Cardinality(DOMAIN render_graph["core_2d"].nodes) = 4
    /\ Cardinality(render_graph["core_2d"].edges) = 3

\* ------------------------------------------------------------------ C11

\* The calls that place a sequence into the render graph.
PlacementCalls == {"insert_into_sub_graph", "create_new_sub_graph"}

\* C11: in every PipelineSequence the label list is as long as the node list
\* and its i-th label is the label of the i-th node, when the sequence is
\* built and after any number of insert_into_sub_graph and
\* create_new_sub_graph calls.
C11_LabelsMatchStages ==
    sequence # None =>
        /\ Len(sequence[1].label_sequence) = Len(sequence[1].node_sequence)
        /\ \A i \in DOMAIN sequence[1].node_sequence :
               sequence[1].label_sequence[i] = label(sequence[1].node_sequence[i])

\* A sequence of two nodes with different labels that was placed twice.
C11_Witness ==
    /\ sequence # None
    /\ Len(sequence[1].node_sequence) = 2
    /\ sequence[1].label_sequence[1] # sequence[1].label_sequence[2]
    /\ last.op \in PlacementCalls
    /\ calls = 2

\* ------------------------------------------------------------------ C12

\* C12: create_new_sub_graph(name) on a graph without a sub-graph of that name
\* gives what add_render_sub_graph(name) followed by
\* insert_into_sub_graph(name, None, None) gives: the new sub-graph holds
\* exactly the sequence's labels as nodes and exactly the edges between
\* consecutive labels (n - 1 of them for n distinct labels), no warning is
\* emitted, and no other sub-graph changes.
C12_CreateIsAddThenInsert ==
    [][(last'.op = "create_new_sub_graph" /\ ~last'.existed) =>
          LET n == last'.sub_graph
          IN /\ \E a \in add_render_sub_graph(App, n) :
                    LET b == insert_into_sub_graph(a, sequence[1], n, None, None)
                    IN /\ render_graph' = b.render_graph
                       /\ warn_log' = b.warn_log
                       /\ last'.trace = b.api_log
             /\ DOMAIN render_graph' = DOMAIN render_graph \cup {n}
             /\ DOMAIN render_graph'[n].nodes = Range(last'.labels)
             /\ render_graph'[n].edges = ChainEdges(last'.labels)
             /\ NoRepeat(last'.labels) =>
                    Cardinality(render_graph'[n].edges) = Max0(Len(last'.labels) - 1)
             /\ warn_log' = warn_log
             /\ \A m \in DOMAIN render_graph : render_graph'[m] = render_graph[m]]_vars

\* A new sub-graph made from three or more distinct labels, with no warning.
C12_Witness ==
    /\ last.op = "create_new_sub_graph"
    /\ ~last.existed
    /\ Len(last.labels) >= 3
    /\ NoRepeat(last.labels)
    /\ DOMAIN render_graph[last.sub_graph].nodes = Range(last.labels)
    /\ Cardinality(render_graph[last.sub_graph].edges) = Len(last.labels) - 1
    /\ warn_log = 0

\* ------------------------------------------------------------------ C13

\* The labels that occur in a set of edges.
Endpoints(edges) == {e[1] : e \in edges} \cup {e[2] : e \in edges}

\* A set of edges holds a directed cycle (a self-loop included): some
\* non-empty set of labels in which every label has an edge into the set.
HasCycle(edges) ==
    \E S \in SUBSET Endpoints(edges) :
        /\ S # {}
        /\ \A v \in S : \E e \in edges : e[1] = v /\ e[2] \in S

\* C13 (as claimed): every sub-graph built by insert_into_sub_graph and
\* create_new_sub_graph is acyclic, whatever the sequence and the anchors:
\* no edge is a self-loop and the edges hold no directed cycle.
C13_SubGraphAcyclic ==
    \A n \in DOMAIN render_graph :
        /\ \A e \in render_graph[n].edges : e[1] # e[2]
        /\ ~HasCycle(render_graph[n].edges)

\* ------------------------------------------------------------------ C14

\* C14 (as claimed): when the construction of a node fails during
\* insert_into_sub_graph, no sub-graph is left holding the nodes that were
\* inserted before the failing one: the render graph is as it was before
\* the call.
C14_NoPartialSubGraph ==
    [][last'.op = "insert_into_sub_graph_panic" =>
          render_graph' = render_graph]_vars

\* ------------------------------------------------------------------ C15

\* [<$pipeline_node:snake:lower>] as paste! would expand it: the identifier
\* in snake case, lower case.
snake_lower(pipeline_node) ==
    CASE pipeline_node = "MainPass" -> "main_pass"
      [] pipeline_node = "Upscaling" -> "upscaling"
      [] pipeline_node = "EndMainPassPostProcessing" -> "end_main_pass_post_processing"
      [] pipeline_node = "Bloom" -> "bloom"
      [] pipeline_node = "Tonemapping" -> "tonemapping"
      [] pipeline_node = "Fxaa" -> "fxaa"
      [] pipeline_node = "MsaaWriteback" -> "msaa_writeback"

\* C15 (as claimed): a node declared without an explicit label reports, on
\* every call of label() and for every instance, the same label, which is
\* the case-normalized form of its identifier.
C15_LabelIsNormalizedIdentifier ==
    sequence # None =>
        \A i \in DOMAIN sequence[1].node_sequence :
            /\ label(sequence[1].node_sequence[i]) = sequence[1].label_sequence[i]
            /\ \A j \in DOMAIN sequence[1].node_sequence :
                   sequence[1].node_sequence[i] = sequence[1].node_sequence[j]
                       => sequence[1].label_sequence[i] = sequence[1].label_sequence[j]
            /\ sequence[1].label_sequence[i] = snake_lower(sequence[1].node_sequence[i])

\* ------------------------------------------------------------------ C16

\* C16: one insert_into_sub_graph call (on its own or inside
\* create_new_sub_graph) makes one add_node_to_render_graph call per node, in
\* sequence order, and after them exactly one add_render_graph_edges call
\* with the whole chain; each node is added after the nodes before it, and
\* when the edges are submitted to an existing sub-graph every label of the
\* sequence is already one of its nodes.
C16_NodesThenEdgesOnce ==
    [][last'.op \in PlacementCalls =>
          LET t == last'.trace
              n == Len(last'.labels)
              off == IF last'.op = "create_new_sub_graph" THEN 1 ELSE 0
          IN /\ Len(t) = off + n + 1
             /\ off = 1 => t[1].op = "add_render_sub_graph"
             /\ \A i \in 1..n :
                    /\ t[off + i].op = "add_node_to_render_graph"
                    /\ t[off + i].sub_graph = last'.sub_graph
                    /\ t[off + i].labels = <<last'.labels[i]>>
                    /\ t[off + i].found =>
                           {last'.labels[j] : j \in 1..(i - 1)} \subseteq t[off + i].nodes
             /\ t[off + n + 1].op = "add_render_graph_edges"
             /\ t[off + n + 1].sub_graph = last'.sub_graph
             /\ t[off + n + 1].labels = last'.source \o last'.labels \o last'.target
             /\ t[off + n + 1].found => Range(last'.labels) \subseteq t[off + n + 1].nodes
             /\ Cardinality({i \in DOMAIN t : t[i].op = "add_render_graph_edges"}) = 1]_vars

\* Two nodes placed into an empty sub-graph: two add_node calls, the first on
\* the empty sub-graph, then the edges call on a sub-graph holding both.
C16_Witness ==
    /\ last.op = "insert_into_sub_graph"
    /\ last.existed
    /\ Len(last.labels) = 2
    /\ NoRepeat(last.labels)
    /\ Len(last.trace) = 3
    /\ last.trace[1].nodes = {}
    /\ last.trace[3].op = "add_render_graph_edges"
    /\ last.trace[3].nodes = Range(last.labels)

\* ------------------------------------------------------------------ C17

\* C17: insert_into_sub_graph of n nodes into a sub-graph that does not exist
\* still makes all n add_node_to_render_graph calls and the
\* add_render_graph_edges call, none of which finds the sub-graph; the render
\* graph is unchanged and exactly n + 1 warnings are emitted.
C17_MissingSubGraphWarnsAndGoesOn ==
    [][(last'.op = "insert_into_sub_graph" /\ ~last'.existed) =>
          /\ render_graph' = render_graph
          /\ warn_log' = warn_log + Len(last'.labels) + 1
          /\ Len(last'.trace) = Len(last'.labels) + 1
          /\ \A i \in DOMAIN last'.trace : ~last'.trace[i].found
          /\ last'.trace[Len(last'.trace)].op = "add_render_graph_edges"
          /\ last'.panic_at = 0]_vars

\* Two nodes into a missing sub-graph: three warnings, an empty render graph.
C17_Witness ==
    /\ last.op = "insert_into_sub_graph"
    /\ ~last.existed
    /\ Len(last.labels) = 2
    /\ warn_log = 3
    /\ render_graph = <<>>

\* ------------------------------------------------------------------ C18

\* C18: whatever create_new_sub_graph and insert_into_sub_graph calls are
\* made, each call leaves every sub-graph such that an edge it holds was
\* either there before, beside all the nodes that were there before, or has
\* both endpoints among the sub-graph's nodes and the anchors handed to this
\* call on this sub-graph. So every edge joins node labels and supplied anchors.
C18_EdgesJoinNodesOrAnchors ==
    [][\A n \in DOMAIN render_graph' :
          LET anchors == IF last'.sub_graph = n
                         THEN Range(last'.source) \cup Range(last'.target)
                         ELSE {}
              known == DOMAIN render_graph'[n].nodes \cup anchors
          IN \A e \in render_graph'[n].edges :
                 \/ /\ n \in DOMAIN render_graph
                    /\ e \in render_graph[n].edges
                    /\ DOMAIN render_graph[n].nodes \subseteq DOMAIN render_graph'[n].nodes
                 \/ e[1] \in known /\ e[2] \in known]_vars

\* A sequence spliced between the anchors A and B, which are not nodes of
\* the sub-graph: its edges start at A and end at B.
C18_Witness ==
    /\ last.op = "insert_into_sub_graph"
    /\ last.existed
    /\ last.source = Some("A")
    /\ last.target = Some("B")
    /\ Len(last.labels) = 2
    /\ "A" \notin DOMAIN render_graph[last.sub_graph].nodes
    /\ <<"A", last.labels[1]>> \in render_graph[last.sub_graph].edges
    /\ <<last.labels[2], "B">> \in render_graph[last.sub_graph].edges

\* ------------------------------------------------------------------ C19

\* C19 (as claimed): the edges one insert_into_sub_graph call produces form a
\* single chain: among them every label has at most one outgoing and at most
\* one incoming edge, a label outside the sequence occurs only as the tail of
\* the first edge (the source) or as the head of the last edge (the target),
\* and the chain is a total order, so it does not return to a label.
C19_SingleChain ==
    [][(last'.op = "insert_into_sub_graph" /\ last'.existed) =>
          LET chain == last'.source \o last'.labels \o last'.target
              produced == ChainEdges(chain)
          IN /\ produced \subseteq render_graph'[last'.sub_graph].edges
             /\ \A v \in Endpoints(produced) :
                    /\ Cardinality({e \in produced : e[1] = v}) <= 1
                    /\ Cardinality({e \in produced : e[2] = v}) <= 1
             /\ \A i \in 1..(Len(chain) - 1) :
                    /\ chain[i] \notin Range(last'.labels) =>
                           i = 1 /\ last'.source = Some(chain[i])
                    /\ chain[i + 1] \notin Range(last'.labels) =>
                           i + 1 = Len(chain) /\ last'.target = Some(chain[i + 1])
             /\ ~HasCycle(produced)]_vars

\* ------------------------------------------------------------------ C20

\* C20 (as claimed): a placement during which a node is inserted under a
\* label that is already a node of the target sub-graph reports it: a call
\* that met such a label does not pass without a record on the log.
C20_DuplicateLabelReported ==
    [][(/\ last'.op \in PlacementCalls
        /\ \E i \in DOMAIN last'.trace :
               /\ last'.trace[i].op = "add_node_to_render_graph"
               /\ last'.trace[i].found
               /\ last'.trace[i].labels[1] \in last'.trace[i].nodes)
          => warn_log' > warn_log]_vars

\* ------------------------------------------------------------------ C26

\* C26: insert_into_sub_graph into a sub-graph that does not exist still
\* constructs every node of the sequence exactly once, in order, each before
\* the add_node_to_render_graph call that looks for the sub-graph and warns;
\* the constructed nodes are dropped: no node is inserted.
C26_ConstructedThenDiscarded ==
    [][(last'.op = "insert_into_sub_graph" /\ ~last'.existed) =>
          /\ Len(last'.created) = Len(sequence[1].node_sequence)
          /\ \A i \in DOMAIN last'.created :
                 /\ last'.created[i].node = sequence[1].node_sequence[i]
                 /\ last'.created[i].before_call = i
                 /\ last'.trace[i].op = "add_node_to_render_graph"
                 /\ ~last'.trace[i].found
          /\ render_graph' = render_graph]_vars

\* Two nodes constructed for a missing sub-graph; the render graph holds
\* another sub-graph, which has no node.
C26_Witness ==
    /\ last.op = "insert_into_sub_graph"
    /\ ~last.existed
    /\ Len(last.created) = 2
    /\ last.created[1].node # last.created[2].node
    /\ \E m \in DOMAIN render_graph : DOMAIN render_graph[m].nodes = {}

\* ------------------------------------------------------------------ C27

\* C27: when insert_into_sub_graph(name) ran while the sub-graph was missing
\* and add_render_sub_graph(name) runs next, the sub-graph then exists and is
\* empty: the nodes and edges of the earlier call were dropped, not kept for
\* later. Had the two calls been made in the other order the sub-graph would
\* hold the sequence's nodes and edges, so the result depends on the order
\* (unless the sequence is empty and has fewer than two anchors).
C27_DroppedNotDeferred ==
    [][(/\ last'.op = "add_render_sub_graph"
        /\ last'.prev.op = "insert_into_sub_graph"
        /\ last'.prev.sub_graph = last'.sub_graph
        /\ ~last'.prev.existed) =>
          LET n == last'.sub_graph
              p == last'.prev
          IN /\ n \in DOMAIN render_graph'
             /\ render_graph'[n] = RenderGraph_default
             /\ (p.labels # <<>> \/ (p.source # None /\ p.target # None)) =>
                    \A a \in add_render_sub_graph(App, n) :
                        insert_into_sub_graph(a, sequence[1], n, p.source, p.target)
                            .render_graph[n] # render_graph'[n]]_vars

\* Two nodes were inserted into a sub-graph added only afterwards: it is empty.
C27_Witness ==
    /\ last.op = "add_render_sub_graph"
    /\ last.prev.op = "insert_into_sub_graph"
    /\ last.prev.sub_graph = last.sub_graph
    /\ ~last.prev.existed
    /\ Len(last.prev.labels) = 2
    /\ render_graph[last.sub_graph] = RenderGraph_default
    /\ warn_log = 3

\* ------------------------------------------------------------------ C24

\* C24: whatever the Core2dSettings hold, the sequence create_core_sequence
\* builds holds MainPass, EndMainPassPostProcessing and Upscaling, in that
\* order, with MainPass first and Upscaling last.
C24_RequiredStagesKept ==
    (sequence # None /\ built_by = "create_core_sequence") =>
        LET q == sequence[1].node_sequence
        IN /\ IsSubsequence(<<"MainPass", "EndMainPassPostProcessing", "Upscaling">>, q)
           /\ q # <<>>
           /\ q[1] = "MainPass"
           /\ q[Len(q)] = "Upscaling"
           /\ sequence[1].label_sequence[1] = MAIN_PASS
           /\ sequence[1].label_sequence[Len(q)] = UPSCALING
           /\ IndexIn(sequence[1].label_sequence, END_MAIN_PASS_POST_PROCESSING)
                  \in 2..(Len(q) - 1)

\* The settings map every required stage to false and the core sequence was
\* built from them.
C24_Witness ==
    /\ sequence # None
    /\ built_by = "create_core_sequence"
    /\ {MAIN_PASS, END_MAIN_PASS_POST_PROCESSING, UPSCALING} \subseteq DOMAIN settings
    /\ ~settings[MAIN_PASS]
    /\ ~settings[END_MAIN_PASS_POST_PROCESSING]
    /\ ~settings[UPSCALING]
    /\ sequence[1].node_sequence[1] = "MainPass"

\* ------------------------------------------------------------------ C30

\* The constant pipeline_node! exports beside each declaration.
ConstOf(pipeline_node) ==
    CASE pipeline_node = "MainPass" -> MAIN_PASS
      [] pipeline_node = "Upscaling" -> UPSCALING
      [] pipeline_node = "EndMainPassPostProcessing" -> END_MAIN_PASS_POST_PROCESSING
      [] pipeline_node = "Bloom" -> BLOOM
      [] pipeline_node = "Tonemapping" -> TONEMAPPING
      [] pipeline_node = "Fxaa" -> FXAA
      [] pipeline_node = "MsaaWriteback" -> MSAA_WRITEBACK

\* C30: the constant exported for each stage equals the string its label()
\* returns, so the settings entry keyed by the constant is the one the
\* inclusion test reads for the stage with that label: a tested stage whose
\* constant the settings hold is in the built core sequence exactly when
\* that entry is true.
C30_ConstantIsLabel ==
    /\ \A n \in StageIds : ConstOf(n) = label(n)
    /\ \A n \in StageIds : \A m \in DOMAIN settings :
           test_core_sequence_inclusion(settings, n) =
               test_core_sequence_inclusion(
                   [k \in DOMAIN settings |->
                       IF k = m /\ m # ConstOf(n) THEN ~settings[k] ELSE settings[k]], n)
    /\ (sequence # None /\ built_by = "create_core_sequence") =>
           \A n \in {"Tonemapping", "Bloom"} :
               ConstOf(n) \in DOMAIN settings =>
                   (n \in Range(sequence[1].node_sequence) <=> settings[ConstOf(n)])

\* The entry keyed by BLOOM is false, the one keyed by TONEMAPPING is true,
\* and the core sequence built from the settings has Tonemapping, not Bloom.
C30_Witness ==
    /\ sequence # None
    /\ built_by = "create_core_sequence"
    /\ {BLOOM, TONEMAPPING} \subseteq DOMAIN settings
    /\ ~settings[BLOOM]
    /\ settings[TONEMAPPING]
    /\ "Bloom" \notin Range(sequence[1].node_sequence)
    /\ "Tonemapping" \in Range(sequence[1].node_sequence)

\* ------------------------------------------------------------------ C29

RECURSIVE add_edge_each(_, _, _, _)
\* add_render_graph_edge(n, l[i], l[i + 1]) for i, i + 1, ... in order.
add_edge_each(app, n, l, i) ==
    IF i + 1 > Len(l) THEN app
    ELSE add_edge_each(add_render_graph_edge(app, n, l[i], l[i + 1]), n, l, i + 1)

\* C22: on an existing sub-graph add_render_graph_edges(n, l) leaves the render
\* graph that add_render_graph_edge(n, l[i], l[i + 1]) for each consecutive
\* pair in order leaves; a list of fewer than two labels adds no edge; and
\* neither call changes the nodes of the sub-graph.
C22_EdgesAsRepeatedEdge ==
    [][/\ (last'.op = "add_render_graph_edges" /\ last'.existed) =>
             LET n == last'.sub_graph
                 l == last'.labels
             IN /\ render_graph' = add_edge_each(App, n, l, 1).render_graph
                /\ render_graph'[n].nodes = render_graph[n].nodes
                /\ Len(l) < 2 => render_graph' = render_graph
       /\ (last'.op = "add_render_graph_edge" /\ last'.existed) =>
             /\ render_graph'[last'.sub_graph].nodes = render_graph[last'.sub_graph].nodes
             /\ render_graph'[last'.sub_graph].edges =
                    render_graph[last'.sub_graph].edges
                        \cup {<<last'.labels[1], last'.labels[2]>>}]_vars

\* add_render_graph_edges was called with three labels on an existing
\* sub-graph, which now holds the two edges between them.
C22_Witness ==
    /\ last.op = "add_render_graph_edges"
    /\ last.existed
    /\ Len(last.labels) = 3
    /\ last.labels[1] # last.labels[2]
    /\ render_graph[last.sub_graph].edges =
           {<<last.labels[1], last.labels[2]>>, <<last.labels[2], last.labels[3]>>}

\* ------------------------------------------------------------------ C28

\* C28: add_node_to_render_graph, add_render_graph_edges, add_render_graph_edge
\* and insert_into_sub_graph applied to the sub-graph named X leave every
\* sub-graph with another name as it was and create none; add_render_sub_graph(X)
\* changes no sub-graph with another name and creates at most X.
C28_OtherSubGraphsUnchanged ==
    [][last'.op \in {"add_node_to_render_graph", "add_render_graph_edges",
                     "add_render_graph_edge", "insert_into_sub_graph",
                     "add_render_sub_graph"} =>
          /\ \A m \in DOMAIN render_graph :
                 m # last'.sub_graph =>
                     m \in DOMAIN render_graph' /\ render_graph'[m] = render_graph[m]
          /\ DOMAIN render_graph' \subseteq DOMAIN render_graph \cup {last'.sub_graph}
          /\ last'.op # "add_render_sub_graph" =>
                 DOMAIN render_graph' = DOMAIN render_graph]_vars

\* The MSAA writeback sequence was inserted into core_3d between two anchors:
\* core_3d holds its node and the two edges, while
\* core_2d holds the six nodes and five edges of the core sequence.
C28_Witness ==
    /\ last.op = "insert_into_sub_graph"
    /\ last.sub_graph = "core_3d"
    /\ last.existed
    /\ DOMAIN render_graph["core_3d"].nodes = {MSAA_WRITEBACK}
    /\ Cardinality(render_graph["core_3d"].edges) = 2
    /\ Cardinality(DOMAIN render_graph[CORE_2D].nodes) = 6
    /\ Cardinality(render_graph[CORE_2D].edges) = 5

\* ------------------------------------------------------------------ C25

\* C25: generate_3d_edges returns [END_MAIN_PASS, FXAA,
\* END_MAIN_PASS_POST_PROCESSING] when tonemapping is enabled for the core 3d
\* pipeline and [TONEMAPPING, FXAA, END_MAIN_PASS_POST_PROCESSING] otherwise.
C25_Generate3dEdgesFollowFlag ==
    last.op = "generate_3d_edges" =>
        last.labels =
            IF last.plugin.tonemapping3d
            THEN <<core_3d_END_MAIN_PASS, core_3d_FXAA,
                   core_3d_END_MAIN_PASS_POST_PROCESSING>>
            ELSE <<core_3d_TONEMAPPING, core_3d_FXAA,
                   core_3d_END_MAIN_PASS_POST_PROCESSING>>

\* ------------------------------------------------------------------ C23

\* C23: sequences and settings are not changed by use. create_core_sequence
\* leaves the settings map as it was; set_bool on the settings leaves a built
\* sequence as it was; create_new_sub_graph, and the insert_into_sub_graph it
\* runs, leave the sequence's node list and label list as they were; so the
\* sub-graphs created from one sequence all hold the same nodes and edges.
C23_NotMutatedByUse ==
    [][/\ last'.op = "create_core_sequence" => settings' = settings
       /\ (last'.op = "set_bool" /\ sequence # None) =>
              /\ sequence' = sequence
              /\ sequence'[1].label_sequence =
                     [i \in DOMAIN sequence'[1].node_sequence |->
                         label(sequence'[1].node_sequence[i])]
       /\ last'.op = "create_new_sub_graph" =>
              /\ sequence'[1].node_sequence = sequence[1].node_sequence
              /\ sequence'[1].label_sequence = sequence[1].label_sequence
              /\ settings' = settings
              /\ \A m \in DOMAIN render_graph' :
                     render_graph'[m] = render_graph'[last'.sub_graph]]_vars

\* Bloom was switched off after the sequence was built; the sequence still
\* holds Bloom and was placed into core_2d and core_3d, which hold the same
\* six nodes and five edges.
C23_Witness ==
    /\ last.op = "create_new_sub_graph"
    /\ BLOOM \in DOMAIN settings
    /\ ~settings[BLOOM]
    /\ "Bloom" \in Range(sequence[1].node_sequence)
    /\ DOMAIN render_graph = {CORE_2D, "core_3d"}
    /\ render_graph[CORE_2D] = render_graph["core_3d"]
    /\ Cardinality(DOMAIN render_graph[CORE_2D].nodes) = 6
    /\ Cardinality(render_graph[CORE_2D].edges) = 5

====
